---- MODULE Spec2Model ----
(***************************************************************************)
(* Model of yazi-fs/src/cha.rs: the ChaKind bit-set, the Cha record, its   *)
(* four construction paths (From<Metadata>, From<FileType>, new_nofollow,  *)
(* the async symlink-following new), dummy(), the predicates and hits.     *)
(***************************************************************************)
EXTENDS Integers, Sequences, FiniteSets, TLC

VARIABLES platform, tasks, a, b, res

vars == <<platform, tasks, a, b, res>>

\* ---------------------------------------------------------------- bounds
\* Number of distinct native-metadata samples per file type.
NumSamples == 3
\* Largest number of fields/flags in which the two records handed to hits differ.
MaxDiff == 2

\* ------------------------------------------------------- program constants
S_IFMT == 61440
S_IFSOCK == 49152
S_IFLNK == 40960
S_IFREG == 32768
S_IFBLK == 24576
S_IFDIR == 16384
S_IFCHR == 8192
S_IFIFO == 4096
S_ISVTX == 512
S_IXUSR == 64
FILE_ATTRIBUTE_HIDDEN == 2
FILE_ATTRIBUTE_SYSTEM == 4

\* ------------------------------------------------------------ basic types
\* Option<T>: None is the empty sequence, Some(x) the one-element sequence.
None == <<>>
Some(x) == <<x>>

RECURSIVE BitAnd(_, _)
BitAnd(x, y) ==
  IF x = 0 \/ y = 0 THEN 0
  ELSE (x % 2) * (y % 2) + 2 * BitAnd(x \div 2, y \div 2)

\* cfg(unix) / cfg(windows)
Platforms == {"unix", "windows"}
unix == platform = "unix"
windows == platform = "windows"
unix_either(x, y) == IF unix THEN x ELSE y
win_either(x, y) == IF windows THEN x ELSE y

\* ChaKind: a set of flag names stands for the u8 bit-set; |= is union,
\* contains is membership. SYSTEM exists only under cfg(windows).
DIR == "DIR"
HIDDEN == "HIDDEN"
LINK == "LINK"
ORPHAN == "ORPHAN"
DUMMY == "DUMMY"
SYSTEM == "SYSTEM"
ChaKind == {DIR, HIDDEN, LINK, ORPHAN, DUMMY} \cup win_either({SYSTEM}, {})

\* Cha::default(): every field zero / absent. The cfg(unix) fields do not
\* exist on windows; there they stay at this default and are never read.
ChaDefault ==
  [kind |-> {}, len |-> 0, atime |-> None, btime |-> None, ctime |-> None,
   mtime |-> None, mode |-> 0, dev |-> 0, uid |-> 0, gid |-> 0, nlink |-> 0]

\* ------------------------------------------------ std::fs::FileType/Metadata
\* The file types std::fs::FileType distinguishes on the platform.
FileTypes ==
  unix_either({"file", "dir", "symlink", "block", "char", "fifo", "sock"},
              {"file", "dir", "symlink"})

\* st_mode type bits of a file type (what stat reports).
TypeBits(t) ==
  CASE t = "dir" -> S_IFDIR
    [] t = "symlink" -> S_IFLNK
    [] t = "block" -> S_IFBLK
    [] t = "char" -> S_IFCHR
    [] t = "fifo" -> S_IFIFO
    [] t = "sock" -> S_IFSOCK
    [] OTHER -> S_IFREG

\* Permission bits of sample v: 0644, 0755 (owner-exec), 01777 (sticky).
SamplePerm(v) == CASE v = 0 -> 420 [] v = 1 -> 493 [] OTHER -> 1023

\* Native metadata sample v of file type t. Every field is a different
\* value for a different v, sample 0 has the failing probes: created() is
\* unsupported and the raw ctime seconds are negative.
MetaOf(t, v) ==
  [ft |-> t,
   len |-> 10 + v,
   accessed |-> Some(100 + v),
   created |-> IF v = 0 THEN None ELSE Some(200 + v),
   modified |-> Some(300 + v),
   ctime |-> unix_either(v - 1, 0),
   ctime_nsec |-> unix_either(v, 0),
   mode |-> unix_either(TypeBits(t) + SamplePerm(v), 0),
   dev |-> unix_either(1 + v, 0),
   uid |-> unix_either(1000 + v, 0),
   gid |-> unix_either(2000 + v, 0),
   nlink |-> unix_either(1 + v, 0),
   file_attributes |-> win_either(2 * (v % 4), 0)]

MetaSamples == {MetaOf(t, v) : t \in FileTypes, v \in 0 .. NumSamples - 1}

is_dir(m) == m.ft = "dir"
is_symlink(m) == m.ft = "symlink"

\* Paths of the entries; a path is its file name as a sequence of characters.
Paths == {<<"a">>, <<".", "b">>}

\* yazi_shared::url::Urn::is_hidden: the file name starts with a dot.
is_hidden_name(path) == Len(path) > 0 /\ path[1] = "."

\* ------------------------------------------------------------ construction
\* UNIX_EPOCH.checked_add(Duration::new(ctime as u64, ctime_nsec as u32)):
\* a negative i64 seconds value casts to a u64 of at least 2^63, which the
\* signed 64-bit seconds of SystemTime cannot hold, so the sum is None.
checked_ctime(sec, nsec) == IF sec < 0 THEN None ELSE Some(<<sec, nsec>>)

FromMetadata_SwapKind(m) ==
  [ChaDefault EXCEPT
     !.kind = IF is_dir(m) THEN {LINK} ELSE IF is_symlink(m) THEN {DIR} ELSE {},
     !.len = m.len, !.atime = m.accessed, !.btime = m.created,
     !.ctime = unix_either(checked_ctime(m.ctime, m.ctime_nsec), None),
     !.mtime = m.modified,
     !.mode = unix_either(m.mode, 0), !.dev = unix_either(m.dev, 0),
     !.uid = unix_either(m.uid, 0), !.gid = unix_either(m.gid, 0),
     !.nlink = unix_either(m.nlink, 0)]

\* impl From<Metadata> for Cha
FromMetadata(m) ==
  [ChaDefault EXCEPT
     !.kind = IF is_dir(m) THEN {DIR} ELSE IF is_symlink(m) THEN {LINK} ELSE {},
     !.len = m.len, !.atime = m.accessed, !.btime = m.created,
     !.ctime = unix_either(checked_ctime(m.ctime, m.ctime_nsec), None),
     !.mtime = m.modified,
     !.mode = unix_either(m.mode, 0), !.dev = unix_either(m.dev, 0),
     !.uid = unix_either(m.uid, 0), !.gid = unix_either(m.gid, 0),
     !.nlink = unix_either(m.nlink, 0)]

\* The mode synthesised by From<FileType> under cfg(unix).
FileTypeMode(t) ==
  CASE t = "dir" -> S_IFDIR
    [] t = "symlink" -> S_IFLNK
    [] t = "block" -> S_IFBLK
    [] t = "char" -> S_IFCHR
    [] t = "fifo" -> S_IFIFO
    [] t = "sock" -> S_IFSOCK
    [] OTHER -> 0

FileTypeKind(t) ==
  {DUMMY} \cup (IF t = "dir" THEN {DIR} ELSE IF t = "symlink" THEN {LINK} ELSE {})

FromFileType_BlockAsChar(t) ==
  [ChaDefault EXCEPT
     !.kind = FileTypeKind(t),
     !.mode = unix_either(IF t = "block" THEN S_IFCHR ELSE FileTypeMode(t), 0)]

FromFileType_PermBits(t) ==
  [ChaDefault EXCEPT
     !.kind = FileTypeKind(t),
     !.mode = unix_either(IF t = "dir" THEN S_IFDIR + S_IXUSR ELSE FileTypeMode(t), 0)]

\* impl From<FileType> for Cha
FromFileType(t) ==
  [ChaDefault EXCEPT
     !.kind = FileTypeKind(t),
     !.mode = unix_either(FileTypeMode(t), 0)]

\* The kind bits new_nofollow attaches: HIDDEN from the file name on unix,
\* HIDDEN and SYSTEM from the attribute bits on windows.
NofollowAttached(path, meta) ==
  unix_either(
    IF is_hidden_name(path) THEN {HIDDEN} ELSE {},
    (IF BitAnd(meta.file_attributes, FILE_ATTRIBUTE_HIDDEN) # 0 THEN {HIDDEN} ELSE {})
      \cup (IF BitAnd(meta.file_attributes, FILE_ATTRIBUTE_SYSTEM) # 0 THEN {SYSTEM} ELSE {}))

new_nofollow_OrphanLinks(path, meta) ==
  LET cha == FromMetadata(meta)
  IN [cha EXCEPT !.kind = cha.kind \cup NofollowAttached(path, meta)
                            \cup (IF is_symlink(meta) THEN {ORPHAN} ELSE {})]

\* Cha::new_nofollow
new_nofollow(path, meta) ==
  LET cha == FromMetadata(meta)
  IN [cha EXCEPT !.kind = cha.kind \cup NofollowAttached(path, meta)]

dummy_Empty == ChaDefault

\* Cha::dummy
dummy == [ChaDefault EXCEPT !.kind = {DUMMY}]

\* Result<Metadata>::unwrap_or(meta) on the fetch result: r is None for Err.
unwrap_or_Default(r, meta) == meta

unwrap_or(r, meta) == IF r = None THEN meta ELSE r[1]

new_finish_NoOrphan(path, meta, attached) ==
  LET cha == new_nofollow(path, meta)
  IN [cha EXCEPT !.kind = cha.kind \cup attached]

\* Cha::new after the await: the second is_symlink test, new_nofollow on the
\* (possibly substituted) metadata, and the OR of the attached bits.
new_finish(path, meta, attached) ==
  LET attached2 == attached \cup (IF is_symlink(meta) THEN {ORPHAN} ELSE {})
      cha == new_nofollow(path, meta)
  IN [cha EXCEPT !.kind = cha.kind \cup attached2]

\* ---------------------------------------------------------------- queries
hits_WithUid(self, c) ==
  /\ self.len = c.len
  /\ self.mtime = c.mtime
  /\ unix_either(self.ctime = c.ctime, TRUE)
  /\ self.btime = c.btime
  /\ self.kind = c.kind
  /\ unix_either(self.mode = c.mode, TRUE)
  /\ self.uid = c.uid

hits_NoBtime(self, c) ==
  /\ self.len = c.len
  /\ self.mtime = c.mtime
  /\ unix_either(self.ctime = c.ctime, TRUE)
  /\ self.kind = c.kind
  /\ unix_either(self.mode = c.mode, TRUE)

\* Cha::hits
hits(self, c) ==
  /\ self.len = c.len
  /\ self.mtime = c.mtime
  /\ unix_either(self.ctime = c.ctime, TRUE)
  /\ self.btime = c.btime
  /\ self.kind = c.kind
  /\ unix_either(self.mode = c.mode, TRUE)

is_dir_cha(c) == DIR \in c.kind
is_hidden(c) == HIDDEN \in c.kind \/ win_either(SYSTEM \in c.kind, FALSE)
is_link(c) == LINK \in c.kind
is_orphan(c) == ORPHAN \in c.kind
is_dummy(c) == DUMMY \in c.kind
is_block(c) == unix_either(BitAnd(c.mode, S_IFMT) = S_IFBLK, FALSE)
is_char(c) == unix_either(BitAnd(c.mode, S_IFMT) = S_IFCHR, FALSE)
is_fifo(c) == unix_either(BitAnd(c.mode, S_IFMT) = S_IFIFO, FALSE)
is_sock(c) == unix_either(BitAnd(c.mode, S_IFMT) = S_IFSOCK, FALSE)
is_exec(c) == unix_either(BitAnd(c.mode, S_IXUSR) # 0, FALSE)
is_sticky(c) == unix_either(BitAnd(c.mode, S_ISVTX) # 0, FALSE)

\* -------------------------------------------------------------- the tasks
\* One construction call per entry (path). pc is the position of the call:
\* "idle" (not called yet), "fetching" (Cha::new suspended at the await of
\* tokio::fs::metadata), "done" (the call returned cha), "cancelled" (the
\* future of Cha::new was dropped at the await). input is the metadata the
\* caller passed, meta the local variable meta of Cha::new, attached its
\* local attached, fetches the number of tokio::fs::metadata calls issued,
\* fetched the outcome of the fetch, target the metadata the fetch returned,
\* cha the returned record.
IdleTask ==
  [pc |-> "idle", via |-> "none", ftype |-> "none", input |-> None, meta |-> None,
   attached |-> {}, fetches |-> 0, fetched |-> "none", target |-> None,
   cha |-> None]

Returned(via, input, cha) ==
  [IdleTask EXCEPT !.pc = "done", !.via = via, !.input = Some(input),
                   !.meta = Some(input), !.cha = Some(cha)]

Init ==
  /\ platform \in Platforms
  /\ tasks = [p \in Paths |-> IdleTask]
  /\ a = dummy
  /\ b = dummy
  /\ res = None

Idle(p) == tasks[p].pc = "idle"

\* Cha::dummy()
Dummy(p) ==
  /\ Idle(p)
  /\ tasks' = [tasks EXCEPT ![p] =
       [IdleTask EXCEPT !.pc = "done", !.via = "dummy", !.cha = Some(dummy)]]
  /\ UNCHANGED <<platform, a, b, res>>

\* Cha::from(file_type)
FromFileTypeCall(p, t) ==
  /\ Idle(p)
  /\ tasks' = [tasks EXCEPT ![p] =
       [IdleTask EXCEPT !.pc = "done", !.via = "from_file_type", !.ftype = t,
                        !.cha = Some(FromFileType(t))]]
  /\ UNCHANGED <<platform, a, b, res>>

\* Cha::from(metadata)
FromMetadataCall(p, m) ==
  /\ Idle(p)
  /\ tasks' = [tasks EXCEPT ![p] = Returned("from_metadata", m, FromMetadata(m))]
  /\ UNCHANGED <<platform, a, b, res>>

\* Cha::new_nofollow(path, meta)
NewNofollowCall(p, m) ==
  /\ Idle(p)
  /\ tasks' = [tasks EXCEPT ![p] = Returned("new_nofollow", m, new_nofollow(p, m))]
  /\ UNCHANGED <<platform, a, b, res>>

\* Cha::new(path, meta) up to its first suspension: a symlink input attaches
\* LINK and issues the target fetch; any other input runs to the return.
NewStart(p, m) ==
  /\ Idle(p)
  /\ tasks' = [tasks EXCEPT ![p] =
       IF is_symlink(m)
       THEN [IdleTask EXCEPT !.pc = "fetching", !.via = "new", !.input = Some(m),
                             !.meta = Some(m), !.attached = {LINK}, !.fetches = 1]
       ELSE [IdleTask EXCEPT !.pc = "done", !.via = "new", !.input = Some(m),
                             !.meta = Some(m), !.cha = Some(new_finish(p, m, {}))]]
  /\ UNCHANGED <<platform, a, b, res>>

NewResume_Retry(p, r) ==
  /\ tasks[p].pc = "fetching"
  /\ LET t == tasks[p]
         meta == unwrap_or(r, t.meta[1])
     IN tasks' = [tasks EXCEPT ![p] =
          IF r = None /\ t.fetches < 2
          THEN [t EXCEPT !.fetches = @ + 1]
          ELSE [t EXCEPT !.pc = "done", !.meta = Some(meta), !.target = r,
                         !.fetched = IF r = None THEN "err" ELSE "ok",
                         !.cha = Some(new_finish(p, meta, t.attached))]]
  /\ UNCHANGED <<platform, a, b, res>>

\* Cha::new resumed with the result r of the fetch (None: the fetch failed):
\* meta = r.unwrap_or(meta), then the rest of the function.
NewResume(p, r) ==
  /\ tasks[p].pc = "fetching"
  /\ LET t == tasks[p]
         meta == unwrap_or(r, t.meta[1])
     IN tasks' = [tasks EXCEPT ![p] =
          [t EXCEPT !.pc = "done", !.meta = Some(meta), !.target = r,
                    !.fetched = IF r = None THEN "err" ELSE "ok",
                    !.cha = Some(new_finish(p, meta, t.attached))]]
  /\ UNCHANGED <<platform, a, b, res>>

\* The fetch returns the metadata of the link's target.
NewFetchOk(p, target) == NewResume(p, Some(target))

\* The fetch fails (the target does not resolve).
NewFetchErr(p) == NewResume(p, None)

\* The embedding system drops the future while it awaits the fetch.
NewCancel(p) ==
  /\ tasks[p].pc = "fetching"
  /\ tasks' = [tasks EXCEPT ![p].pc = "cancelled"]
  /\ UNCHANGED <<platform, a, b, res>>

Next ==
  \E p \in Paths :
    \/ Dummy(p)
    \/ \E t \in FileTypes : FromFileTypeCall(p, t)
    \/ \E m \in MetaSamples : FromMetadataCall(p, m)
    \/ \E m \in MetaSamples : NewNofollowCall(p, m)
    \/ \E m \in MetaSamples : NewStart(p, m)
    \/ \E target \in MetaSamples : NewFetchOk(p, target)
    \/ NewFetchErr(p)
    \/ NewCancel(p)

Spec == Init /\ [][Next]_vars

\* ----------------------------------------------------- the calls of hits
\* The fields of a record and the kind flags in which two records can differ.
Atoms ==
  {"len", "atime", "btime", "mtime"}
    \cup unix_either({"ctime", "mode", "dev", "uid", "gid", "nlink"}, {})
    \cup ChaKind

AltTime(x) == IF x = None THEN Some(0) ELSE Some(x[1] + 1)
AltCtime(x) == IF x = None THEN Some(<<0, 0>>) ELSE Some(<<x[1][1], x[1][2] + 1>>)
AltMode(x) == IF BitAnd(x, S_IXUSR) # 0 THEN x - S_IXUSR ELSE x + S_IXUSR

\* The record c with the field (or the kind flag) d changed.
Changed(c, d) ==
  CASE d = "len" -> [c EXCEPT !.len = @ + 1]
    [] d = "atime" -> [c EXCEPT !.atime = AltTime(@)]
    [] d = "btime" -> [c EXCEPT !.btime = AltTime(@)]
    [] d = "mtime" -> [c EXCEPT !.mtime = AltTime(@)]
    [] d = "ctime" -> [c EXCEPT !.ctime = AltCtime(@)]
    [] d = "mode" -> [c EXCEPT !.mode = AltMode(@)]
    [] d = "dev" -> [c EXCEPT !.dev = @ + 1]
    [] d = "uid" -> [c EXCEPT !.uid = @ + 1]
    [] d = "gid" -> [c EXCEPT !.gid = @ + 1]
    [] d = "nlink" -> [c EXCEPT !.nlink = @ + 1]
    [] OTHER -> [c EXCEPT !.kind = IF d \in @ THEN @ \ {d} ELSE @ \cup {d}]

RECURSIVE ChangedAll(_, _)
ChangedAll(c, D) ==
  IF D = {} THEN c
  ELSE LET d == CHOOSE x \in D : TRUE IN ChangedAll(Changed(c, d), D \ {d})

RECURSIVE SubsetsUpTo(_, _)
SubsetsUpTo(S, n) ==
  IF n = 0 THEN {{}}
  ELSE LET prev == SubsetsUpTo(S, n - 1) IN prev \cup {D \cup {x} : D \in prev, x \in S}

\* The records the construction paths return.
BuiltChas ==
  {dummy} \cup {FromFileType(t) : t \in FileTypes}
    \cup {new_finish(p, m, at) : p \in Paths, m \in MetaSamples, at \in {{}, {LINK}}}

InitHits ==
  /\ platform \in Platforms
  /\ tasks = [p \in Paths |-> IdleTask]
  /\ a \in BuiltChas
  /\ b \in {ChangedAll(a, D) : D \in SubsetsUpTo(Atoms, MaxDiff)}
  /\ res = None

\* a.hits(b), b.hits(a) and a.hits(a)
HitsCall ==
  /\ res = None
  /\ res' = Some([ab |-> hits(a, b), ba |-> hits(b, a), aa |-> hits(a, a)])
  /\ UNCHANGED <<platform, tasks, a, b>>

NextHits == HitsCall

SpecHits == InitHits /\ [][NextHits]_vars

\* ------------------------------------------------------------- the claims
Built(p) == tasks[p].cha # None
ChaOf(p) == tasks[p].cha[1]
InputOf(p) == tasks[p].input[1]
TargetOf(p) == tasks[p].target[1]
ViaMeta == {"from_metadata", "new_nofollow", "new"}

\* The fields of two records other than kind agree.
SameData(c, d) == [c EXCEPT !.kind = {}] = [d EXCEPT !.kind = {}]

\* The record c carries the data fields From<Metadata> copies from m.
DataFrom(c, m) ==
  /\ c.len = m.len
  /\ c.atime = m.accessed
  /\ c.btime = m.created
  /\ c.mtime = m.modified
  /\ unix =>
       /\ c.ctime = checked_ctime(m.ctime, m.ctime_nsec)
       /\ c.mode = m.mode
       /\ c.dev = m.dev
       /\ c.uid = m.uid
       /\ c.gid = m.gid
       /\ c.nlink = m.nlink

BrokenLink(p) ==
  /\ tasks[p].via = "new"
  /\ tasks[p].input # None
  /\ is_symlink(InputOf(p))
  /\ tasks[p].fetched = "err"

\* C1: following construction of a broken symlink (symlink input, failed
\* target fetch) returns a record - the failure is not propagated - with LINK
\* and ORPHAN set and every other field, HIDDEN included, equal to what
\* non-following construction yields from the link's own metadata.
C1_BrokenLinkFallsBack ==
  \A p \in Paths :
    BrokenLink(p) =>
      /\ tasks[p].pc = "done"
      /\ Built(p)
      /\ {LINK, ORPHAN} \subseteq ChaOf(p).kind
      /\ SameData(ChaOf(p), new_nofollow(p, InputOf(p)))
      /\ DataFrom(ChaOf(p), InputOf(p))
      /\ ChaOf(p).kind \ {LINK, ORPHAN} = new_nofollow(p, InputOf(p)).kind \ {LINK, ORPHAN}

C1_Witness ==
  \E p \in Paths : BrokenLink(p) /\ Built(p) /\ is_orphan(ChaOf(p)) /\ is_hidden(ChaOf(p))

LiveLink(p) ==
  /\ tasks[p].via = "new"
  /\ tasks[p].input # None
  /\ is_symlink(InputOf(p))
  /\ tasks[p].fetched = "ok"
  /\ ~is_symlink(TargetOf(p))

\* C2: following construction of a live symlink (symlink input, the fetch
\* returns non-symlink metadata) returns a record with LINK set, ORPHAN clear,
\* and len, timestamps, DIR bit, mode, dev, uid, gid, nlink of the fetched
\* target metadata, not of the link metadata passed in.
C2_LiveLinkDescribesTarget ==
  \A p \in Paths :
    LiveLink(p) =>
      /\ Built(p)
      /\ is_link(ChaOf(p))
      /\ ~is_orphan(ChaOf(p))
      /\ DataFrom(ChaOf(p), TargetOf(p))
      /\ is_dir_cha(ChaOf(p)) <=> is_dir(TargetOf(p))

C2_Witness ==
  \E p \in Paths :
    /\ LiveLink(p)
    /\ Built(p)
    /\ TargetOf(p).len # InputOf(p).len
    /\ TargetOf(p).modified # InputOf(p).modified
    /\ ChaOf(p).len = TargetOf(p).len

\* a and b agree in every field except dev, uid, gid and nlink.
DifferOnlyInIds ==
  [a EXCEPT !.dev = 0, !.uid = 0, !.gid = 0, !.nlink = 0]
    = [b EXCEPT !.dev = 0, !.uid = 0, !.gid = 0, !.nlink = 0]

\* C3: hits is reflexive and symmetric, and two records that differ only in
\* owner id, group id, device id or link count hit.
C3_HitsReflSymIgnoresIds ==
  res # None =>
    /\ res[1].aa
    /\ res[1].ab = res[1].ba
    /\ DifferOnlyInIds => res[1].ab

C3_Witness ==
  /\ res # None
  /\ DifferOnlyInIds
  /\ a.uid # b.uid
  /\ a.nlink # b.nlink
  /\ res[1].ab

\* C4: hits(a, b) is true exactly when length, modification time, birth time
\* and kind bit-set are equal and, on the POSIX platform, inode-change time
\* and raw mode bits are equal too.
C4_HitsExactlyOnComparedFields ==
  res # None =>
    (res[1].ab <=>
       /\ a.len = b.len
       /\ a.mtime = b.mtime
       /\ a.btime = b.btime
       /\ a.kind = b.kind
       /\ unix => (a.ctime = b.ctime /\ a.mode = b.mode))

C4_Witness ==
  /\ res # None
  /\ a.btime # b.btime
  /\ a.len = b.len /\ a.mtime = b.mtime /\ a.kind = b.kind
  /\ a.ctime = b.ctime /\ a.mode = b.mode
  /\ ~res[1].ab

NoTimes(c) == c.atime = None /\ c.btime = None /\ c.ctime = None /\ c.mtime = None

C6_DummyIsBlank ==
  \A p \in Paths :
    tasks[p].via = "dummy" =>
      /\ Built(p)
      /\ \A q \in Paths : tasks[q].via = "dummy" => tasks[q].cha = tasks[p].cha
      /\ ChaOf(p).kind = {DUMMY}
      /\ is_dummy(ChaOf(p))
      /\ ~is_dir_cha(ChaOf(p)) /\ ~is_hidden(ChaOf(p)) /\ ~is_link(ChaOf(p))
      /\ ~is_orphan(ChaOf(p)) /\ ~is_block(ChaOf(p)) /\ ~is_char(ChaOf(p))
      /\ ~is_fifo(ChaOf(p)) /\ ~is_sock(ChaOf(p)) /\ ~is_exec(ChaOf(p))
      /\ ~is_sticky(ChaOf(p))
      /\ ChaOf(p).len = 0 /\ ChaOf(p).mode = 0 /\ ChaOf(p).dev = 0
      /\ ChaOf(p).uid = 0 /\ ChaOf(p).gid = 0 /\ ChaOf(p).nlink = 0
      /\ NoTimes(ChaOf(p))

C6_Witness ==
  \A p \in Paths : tasks[p].via = "dummy" /\ Built(p) /\ is_dummy(ChaOf(p))

\* C7 as stated: a record built from native metadata (by the mapping, by
\* non-following or by following construction) has DIR exactly when the input
\* is a directory, LINK exactly when it is a symlink, and never both.
C7_Original ==
  \A p \in Paths :
    (Built(p) /\ tasks[p].via \in ViaMeta) =>
      /\ is_dir_cha(ChaOf(p)) <=> is_dir(InputOf(p))
      /\ is_link(ChaOf(p)) <=> is_symlink(InputOf(p))
      /\ ~(is_dir_cha(ChaOf(p)) /\ is_link(ChaOf(p)))

\* C7 amended: a record built from native metadata has LINK exactly when the
\* input is a symlink; built by the mapping or by non-following construction
\* it has DIR exactly when the input is a directory, so never both; built by
\* following construction it has DIR exactly when the metadata the record is
\* built from (the fetched target's if the fetch succeeded, else the input)
\* is a directory, so DIR and LINK are both set exactly for a symlink whose
\* target resolves to a directory.
C7_DirLinkFollowInput ==
  \A p \in Paths :
    (Built(p) /\ tasks[p].via \in ViaMeta) =>
      /\ is_link(ChaOf(p)) <=> is_symlink(InputOf(p))
      /\ tasks[p].via # "new" =>
           /\ is_dir_cha(ChaOf(p)) <=> is_dir(InputOf(p))
           /\ ~(is_dir_cha(ChaOf(p)) /\ is_link(ChaOf(p)))
      /\ tasks[p].via = "new" =>
           /\ is_dir_cha(ChaOf(p)) <=>
                is_dir(IF tasks[p].fetched = "ok" THEN TargetOf(p) ELSE InputOf(p))
           /\ (is_dir_cha(ChaOf(p)) /\ is_link(ChaOf(p))) <=>
                (is_symlink(InputOf(p)) /\ tasks[p].fetched = "ok" /\ is_dir(TargetOf(p)))

C7_Witness ==
  /\ \E p \in Paths :
       Built(p) /\ tasks[p].via = "new" /\ is_dir_cha(ChaOf(p)) /\ is_link(ChaOf(p))
  /\ \E p \in Paths :
       Built(p) /\ tasks[p].via = "new_nofollow" /\ is_link(ChaOf(p))

\* C8: in every constructed record ORPHAN is set only if LINK is set too and
\* the record comes from following construction of symlink input; the
\* mapping, non-following construction, the probe and dummy() never set it.
C8_OrphanOnlyFromFollowedLink ==
  \A p \in Paths :
    (Built(p) /\ is_orphan(ChaOf(p))) =>
      /\ is_link(ChaOf(p))
      /\ tasks[p].via = "new"
      /\ is_symlink(InputOf(p))

C8_Witness ==
  /\ \E p \in Paths : Built(p) /\ is_orphan(ChaOf(p))
  /\ \E p \in Paths :
       Built(p) /\ tasks[p].via = "new_nofollow" /\ is_symlink(InputOf(p))

Probed(p) == tasks[p].via = "from_file_type"

\* What C9 holds of every probe-built record apart from the value of mode.
ProbeShape(p) ==
  /\ Built(p)
  /\ is_dummy(ChaOf(p))
  /\ is_dir_cha(ChaOf(p)) <=> tasks[p].ftype = "dir"
  /\ is_link(ChaOf(p)) <=> tasks[p].ftype = "symlink"
  /\ ChaOf(p).len = 0 /\ NoTimes(ChaOf(p))
  /\ ChaOf(p).dev = 0 /\ ChaOf(p).uid = 0 /\ ChaOf(p).gid = 0 /\ ChaOf(p).nlink = 0
  /\ unix =>
       /\ is_block(ChaOf(p)) <=> tasks[p].ftype = "block"
       /\ is_char(ChaOf(p)) <=> tasks[p].ftype = "char"
       /\ is_fifo(ChaOf(p)) <=> tasks[p].ftype = "fifo"
       /\ is_sock(ChaOf(p)) <=> tasks[p].ftype = "sock"
       /\ ~is_exec(ChaOf(p))
       /\ ~is_sticky(ChaOf(p))

\* C9 as stated: a probe-built record has DUMMY, DIR/LINK exactly for a
\* directory/symlink, default len, timestamps and ids, and on POSIX a mode
\* equal to the raw type bits of the probed type, for every file type.
C9_Original ==
  \A p \in Paths :
    Probed(p) =>
      /\ ProbeShape(p)
      /\ unix => ChaOf(p).mode = TypeBits(tasks[p].ftype)

\* C9 amended: as stated, except that on POSIX mode is the raw type bits of
\* the probed type only for a directory, symlink, block device, char device,
\* fifo or socket; for a regular file mode is 0, not S_IFREG.
C9_ProbeSynthesisesTypeBits ==
  \A p \in Paths :
    Probed(p) =>
      /\ ProbeShape(p)
      /\ unix =>
           ChaOf(p).mode =
             IF tasks[p].ftype = "file" THEN 0 ELSE TypeBits(tasks[p].ftype)

C9_Witness ==
  /\ \E p \in Paths : Probed(p) /\ Built(p) /\ is_block(ChaOf(p))
  /\ \E p \in Paths : Probed(p) /\ Built(p) /\ tasks[p].ftype = "file" /\ unix

C10Inv ==
  \A p \in Paths :
    /\ tasks[p].fetches <= 1
    /\ Built(p) => tasks[p].pc = "done"
    /\ tasks[p].pc = "cancelled" => ~Built(p)
    /\ tasks[p].via = "new" =>
         /\ tasks[p].fetches = IF is_symlink(InputOf(p)) THEN 1 ELSE 0
         /\ (Built(p) /\ is_symlink(InputOf(p))) => tasks[p].fetched \in {"ok", "err"}
         /\ tasks[p].fetched \in {"ok", "err"} => Built(p)

C10Step ==
  \A p \in Paths :
    /\ tasks[p].pc \in {"done", "cancelled"} => tasks'[p] = tasks[p]
    /\ tasks'[p].fetches # tasks[p].fetches => tasks[p].pc = "idle"
    /\ tasks'[p] # tasks[p] => \A q \in Paths \ {p} : tasks'[q] = tasks[q]

\* C10: a following construction issues exactly one target fetch for symlink
\* input and none otherwise, never retries, and returns a record only after
\* the fetch has returned; a cancelled or pending fetch leaves no record, and
\* a step of one construction leaves the other entries' constructions as
\* they were.
C10_OneFetchNoPartialRecord == [](C10Inv) /\ [][C10Step]_vars

C10_Witness ==
  \E p, q \in Paths :
    /\ tasks[p].pc = "cancelled" /\ ~Built(p) /\ tasks[p].fetches = 1
    /\ tasks[q].via = "new" /\ tasks[q].fetched = "err" /\ Built(q) /\ tasks[q].fetches = 1

====
